---- MODULE Spec2Model ----
(***************************************************************************)
(* The element annotation overlay: the dual-role (primary/secondary)       *)
(* script and the single-lock script, as injected into one page.           *)
(* State is the window's annotation globals, the class lists of the page's *)
(* elements, the listeners attached to window and the style nodes in head. *)
(***************************************************************************)
EXTENDS Integers, Sequences, FiniteSets, TLC

\* ------------------------------------------------------------------ bounds

\* Number of page elements that can be the target of an event.
NumElems == 4

\* ---------------------------------------------------------------- the page

\* JavaScript null for an element reference.
Null == 0

Elems == 1..NumElems

\* The html element and the document node, its parent: neither is an event
\* target here, both are on the ancestor path getXPath walks.
HtmlNode == NumElems + 1

DocumentNode == NumElems + 2

\* The page: html > body > (a, input#q, select, div, div, ...).
BodyElem == 1

\* The link of the page, <a href="https://example.org/">.
AnchorElem == 2

\* element.tagName (upper case in an HTML document).
TagName(n) ==
    CASE n = HtmlNode -> "HTML"
      [] n = BodyElem -> "BODY"
      [] n = AnchorElem -> "A"
      [] n = 3 -> "INPUT"
      [] n = 4 -> "SELECT"
      [] OTHER -> "DIV"

\* element.id: the empty string when the element has no id attribute.
ElemId(n) == IF n = 3 THEN "q" ELSE ""

\* element.parentNode
ParentNode(n) ==
    CASE n = HtmlNode -> DocumentNode
      [] n = BodyElem -> HtmlNode
      [] OTHER -> BodyElem

\* parent.childNodes restricted to element nodes, in document order.
ChildNodes(p) ==
    SelectSeq([i \in 1..HtmlNode |-> i], LAMBDA c: ParentNode(c) = p)

\* String.prototype.toLowerCase on the tag names of the page.
ToLowerCase(t) ==
    CASE t = "HTML" -> "html"
      [] t = "BODY" -> "body"
      [] t = "A" -> "a"
      [] t = "INPUT" -> "input"
      [] t = "SELECT" -> "select"
      [] t = "DIV" -> "div"
      [] t = "HEAD" -> "head"
      [] t = "UL" -> "ul"
      [] t = "LI" -> "li"

\* Number of siblings before position k that are elements with tag t.
RECURSIVE SameTagBefore(_, _, _)
SameTagBefore(sibs, k, t) ==
    IF k <= 1 THEN 0
    ELSE SameTagBefore(sibs, k - 1, t)
         + (IF TagName(sibs[k - 1]) = t THEN 1 ELSE 0)

\* Index of node n in the sequence sibs, 0 when absent.
IndexOf(sibs, n) ==
    IF \E i \in 1..Len(sibs) : sibs[i] = n
    THEN CHOOSE i \in 1..Len(sibs) : sibs[i] = n
    ELSE 0

\* getXPath(element).  The document node has no id property, so
\* `element.id !== ''` is true for it and the template prints "undefined".
RECURSIVE getXPath(_)
getXPath(n) ==
    IF n = DocumentNode THEN "//*[@id=\"undefined\"]"
    ELSE IF ElemId(n) # "" THEN "//*[@id=\"" \o ElemId(n) \o "\"]"
    ELSE IF n = BodyElem THEN "/html/body"
    ELSE LET sibs == ChildNodes(ParentNode(n))
             k == IndexOf(sibs, n)
         IN IF k = 0 THEN "null"
            ELSE getXPath(ParentNode(n)) \o "/" \o ToLowerCase(TagName(n))
                 \o "[" \o ToString(SameTagBefore(sibs, k, TagName(n)) + 1) \o "]"

\* --------------------------------------------------- getXPath in any document

\* A document is the sequence of its nodes in document order, each with its
\* parentNode, its tagName ("#document" and "#text" for the nodes that have
\* none) and its id.  Every document starts with the document node, html,
\* head and body.
MaxExtraNodes == 4

DocBody == 4

Skeleton ==
    <<[parent |-> Null, tag |-> "#document", id |-> ""],
      [parent |-> 1, tag |-> "HTML", id |-> ""],
      [parent |-> 2, tag |-> "HEAD", id |-> ""],
      [parent |-> 2, tag |-> "BODY", id |-> ""]>>

\* What the k-th node after the skeleton can be: the first is a list or a div
\* in head or body, the second an element or a text node anywhere or detached,
\* the others id-less elements or text nodes in head, in body or in the first.
ExtraChoices(k) ==
    IF k = 1
    THEN [parent : {3, DocBody}, tag : {"UL", "DIV"}, id : {"", "list"}]
    ELSE IF k = 2
    THEN [parent : {Null, 3, DocBody, 5}, tag : {"LI", "DIV"}, id : {"", "list"}]
         \cup [parent : {Null, 3, DocBody, 5}, tag : {"#text"}, id : {""}]
    ELSE [parent : {3, DocBody, 5}, tag : {"LI", "DIV", "#text"}, id : {""}]

RECURSIVE DocsWith(_)
DocsWith(k) ==
    IF k = 0 THEN {Skeleton}
    ELSE {Append(d, c) : d \in DocsWith(k - 1), c \in ExtraChoices(k)}

Docs == DocsWith(MaxExtraNodes)

\* node.nodeType === 1
IsElement(d, n) == d[n].tag \notin {"#document", "#text"}

ElementsOf(d) == {n \in 1..Len(d) : IsElement(d, n)}

\* parent.childNodes, in document order.
ChildNodesIn(d, p) == SelectSeq([i \in 1..Len(d) |-> i], LAMBDA c: d[c].parent = p)

\* ix when the loop reaches position k: the siblings before it that are
\* elements with tag t.
RECURSIVE SameTagBeforeIn(_, _, _, _)
SameTagBeforeIn(d, sibs, k, t) ==
    IF k <= 1 THEN 0
    ELSE SameTagBeforeIn(d, sibs, k - 1, t)
         + (IF IsElement(d, sibs[k - 1]) /\ d[sibs[k - 1]].tag = t THEN 1 ELSE 0)

\* The TypeError of reading childNodes of a null parentNode.
Throws == "TypeError"

\* getXPath(element) in document d: the string it returns, "null" for null,
\* Throws when it throws.
RECURSIVE XPathIn(_, _)
XPathIn(d, n) ==
    IF d[n].tag = "#document" THEN "//*[@id=\"undefined\"]"
    ELSE IF d[n].id # "" THEN "//*[@id=\"" \o d[n].id \o "\"]"
    ELSE IF n = DocBody THEN "/html/body"
    ELSE IF d[n].parent = Null THEN Throws
    ELSE LET sibs == ChildNodesIn(d, d[n].parent)
             k == IndexOf(sibs, n)
         IN IF k = 0 THEN "null"
            ELSE LET up == XPathIn(d, d[n].parent)
                 IN IF up = Throws THEN Throws
                    ELSE up \o "/" \o ToLowerCase(d[n].tag) \o "["
                         \o ToString(SameTagBeforeIn(d, sibs, k, d[n].tag) + 1) \o "]"

\* The node at which the recursion of getXPath(n) takes a return without
\* calling itself again (or throws).
RECURSIVE XPathEndsAt(_, _)
XPathEndsAt(d, n) ==
    IF \/ d[n].tag = "#document"
       \/ d[n].id # ""
       \/ n = DocBody
       \/ d[n].parent = Null
    THEN n
    ELSE XPathEndsAt(d, d[n].parent)

\* ------------------------------------------------------------- class lists

HighlightClass == "annotation-highlight"

PrimaryClass == "annotation-primary"

SecondaryClass == "annotation-secondary"

LockedClass == "annotation-locked"

\* classList.contains(c)
Contains(l, c) == \E i \in 1..Len(l) : l[i] = c

\* classList.add(c): appends the token unless present.
ClassAdd(l, c) == IF Contains(l, c) THEN l ELSE Append(l, c)

\* classList.remove(c)
ClassRemove(l, c) == SelectSeq(l, LAMBDA x: x # c)

\* element.className: the tokens joined by single spaces.
RECURSIVE ClassName(_)
ClassName(l) ==
    IF l = <<>> THEN ""
    ELSE IF Len(l) = 1 THEN l[1]
    ELSE l[1] \o " " \o ClassName(Tail(l))

\* Elements whose class list holds class c.
Carrying(cls, c) == {e \in Elems : Contains(cls[e], c)}

\* ------------------------------------------------------------------- state

VARIABLES
    documentHead,            \* document.head is non-null
    styleNodes,              \* number of nodes with id 'annotation-styles'
    annotationSetupDone,     \* window._annotationSetupDone
    installed,               \* whose unlockElement/setAnnotationMode window holds
    setupRuns,               \* setup invocations that created closures
    storedListener,          \* window._annotation<Kind>Listener, per event type
    attached,                \* window's event listener list, in registration order
    annotationMode,          \* window._annotationMode
    selectedElement,         \* window._selectedElement
    elementLocked,           \* window._elementLocked
    currentHighlightedElement, \* window._currentHighlightedElement
    lockedElement,           \* window._lockedElement
    secondaryActualElement,  \* window._secondaryActualElement
    secondaryElements,       \* window._secondaryElements
    classList,               \* element.classList of every page element
    lastOp,                  \* the most recent operation and what it returned to its caller
    lastEntered,             \* history: last element entered while the mode was on
                             \* that carried no locked-role class when entered
    setupThrew,              \* history: some setup invocation ended in an exception
    preventNewTabsSetupDone, \* window._preventNewTabsSetupDone
    documentClickListeners,  \* capture click listeners processLinks put on document
    anchorAttrs,             \* the target and rel attributes of the page's link
    fetchPending,            \* some notification request has not settled yet
    xpDoc,                   \* the document getXPath is called in
    xpNode,                  \* the element of the last getXPath call
    xpResult                 \* what that call returned

setupVars == <<documentHead, styleNodes, annotationSetupDone, installed,
               setupRuns, storedListener, attached>>

sessionVars == <<annotationMode, selectedElement, elementLocked,
                 currentHighlightedElement, lockedElement,
                 secondaryActualElement, secondaryElements>>

historyVars == <<lastEntered, setupThrew>>

newTabVars == <<preventNewTabsSetupDone, documentClickListeners, anchorAttrs>>

xpathVars == <<xpDoc, xpNode, xpResult>>

vars == <<setupVars, sessionVars, classList, lastOp, historyVars, newTabVars,
          fetchPending, xpathVars>>

\* The six event types the scripts listen to.
EventTypes == {"mouseover", "mouseout", "click", "keydown", "mousedown", "change"}

\* A variable that was never assigned (undefined), and JavaScript null for data.
NoListener == [undefined |-> TRUE]

NoData == [null |-> TRUE]

\* What the handlers of one dispatch read and write: the window globals, the
\* class lists, whether preventDefault and stopImmediatePropagation were called
\* on the event, the requests issued, whether window.location was assigned,
\* and event.target.isContentEditable, an attribute of the page that no script
\* here writes and that the event brings along.  atFetch keeps, for each
\* request, what the globals and class lists were when fetch was called.
Session ==
    [annotationMode |-> annotationMode,
     selectedElement |-> selectedElement,
     elementLocked |-> elementLocked,
     currentHighlightedElement |-> currentHighlightedElement,
     lockedElement |-> lockedElement,
     secondaryActualElement |-> secondaryActualElement,
     secondaryElements |-> secondaryElements,
     classList |-> classList,
     defaultPrevented |-> FALSE,
     propagationStopped |-> FALSE,
     fetched |-> <<>>,
     navigated |-> FALSE,
     targetEditable |-> FALSE,
     atFetch |-> <<>>]

\* The record stored for a selected element.  className is read after the role
\* class was added.  textContent, value and attributes are page content that no
\* handler changes and are left out.
CapturedData(cls, e) ==
    [tagName |-> TagName(e),
     id |-> ElemId(e),
     className |-> ClassName(cls[e]),
     xpath |-> getXPath(e)]

\* event.preventDefault(); event.stopImmediatePropagation();
Cancel(s) == [s EXCEPT !.defaultPrevented = TRUE, !.propagationStopped = TRUE]

\* The globals and class lists as they are at one point of a handler.
Snapshot(s) ==
    [elementLocked |-> s.elementLocked,
     selectedElement |-> s.selectedElement,
     lockedElement |-> s.lockedElement,
     secondaryActualElement |-> s.secondaryActualElement,
     secondaryElements |-> s.secondaryElements,
     classList |-> s.classList]

\* fetch(url, {mode: 'no-cors'}): the request is issued, nothing is awaited.
Fetch(s, endpoint) ==
    [s EXCEPT !.fetched = Append(@, endpoint),
              !.atFetch = Append(@, Snapshot(s))]

\* A slip: a rejected request undoes the selection.
OnFetchSettledUndoes(s, outcome) ==
    IF outcome = "rejected"
    THEN [s EXCEPT !.elementLocked = FALSE, !.selectedElement = NoData]
    ELSE s

\* What the scripts do when the promise of a request settles: the promise is
\* dropped where fetch returns it, no then or catch is attached to it.
OnFetchSettled(s, outcome) == s

\* ------------------------------------------------- dual-role script handlers

\* A slip: the hover handler forgets to take the highlight off the element it
\* tracked before.
DualMouseoverKeepsPrevious(s, e) ==
    IF ~s.annotationMode THEN s
    ELSE IF Contains(s.classList[e], PrimaryClass)
            \/ Contains(s.classList[e], SecondaryClass) THEN s
    ELSE [s EXCEPT !.classList[e] = ClassAdd(@, HighlightClass),
                   !.currentHighlightedElement = e]

\* window._annotationMouseoverListener of the dual-role script.
DualMouseover(s, e) ==
    IF ~s.annotationMode THEN s
    ELSE IF Contains(s.classList[e], PrimaryClass)
            \/ Contains(s.classList[e], SecondaryClass) THEN s
    ELSE LET prev == s.currentHighlightedElement
             c1 == IF prev # Null /\ prev # e
                   THEN [s.classList EXCEPT ![prev] = ClassRemove(@, HighlightClass)]
                   ELSE s.classList
         IN [s EXCEPT !.classList = [c1 EXCEPT ![e] = ClassAdd(@, HighlightClass)],
                      !.currentHighlightedElement = e]

\* A slip: the dual-role mouseout handler does nothing while the mode is off.
DualMouseoutModeOnly(s, e) ==
    IF ~s.annotationMode THEN s
    ELSE IF e = s.currentHighlightedElement
    THEN [s EXCEPT !.classList[e] = ClassRemove(@, HighlightClass),
                   !.currentHighlightedElement = Null]
    ELSE s

\* window._annotationMouseoutListener of the dual-role script.
DualMouseout(s, e) ==
    IF e = s.currentHighlightedElement
    THEN [s EXCEPT !.classList[e] = ClassRemove(@, HighlightClass),
                   !.currentHighlightedElement = Null]
    ELSE s

\* A slip: the primary branch sends its notification twice.
DualClickPrimaryTwice(s, e) ==
    LET c1 == [s.classList EXCEPT
                  ![e] = ClassAdd(ClassRemove(@, HighlightClass), PrimaryClass)]
    IN Fetch(Fetch([s EXCEPT !.elementLocked = TRUE,
                             !.classList = c1,
                             !.selectedElement = CapturedData(c1, e),
                             !.lockedElement = e],
                   "notify-primary-selected"),
             "notify-primary-selected")

\* A slip: the primary branch leaves the highlight class on the element.
DualClickPrimaryKeepsHighlight(s, e) ==
    LET c1 == [s.classList EXCEPT ![e] = ClassAdd(@, PrimaryClass)]
    IN Fetch([s EXCEPT !.elementLocked = TRUE,
                       !.classList = c1,
                       !.selectedElement = CapturedData(c1, e),
                       !.lockedElement = e],
             "notify-primary-selected")

\* The primary (gold) branch of the dual-role click listener.
DualClickPrimary(s, e) ==
    LET c1 == [s.classList EXCEPT
                  ![e] = ClassAdd(ClassRemove(@, HighlightClass), PrimaryClass)]
    IN Fetch([s EXCEPT !.elementLocked = TRUE,
                       !.classList = c1,
                       !.selectedElement = CapturedData(c1, e),
                       !.lockedElement = e],
             "notify-primary-selected")

\* A slip: the secondary branch without its test for an element that is the
\* primary or already a secondary.
DualClickSecondaryUnchecked(s, e) ==
    LET c1 == [s.classList EXCEPT
                  ![e] = ClassAdd(ClassRemove(@, HighlightClass), SecondaryClass)]
    IN Fetch([s EXCEPT !.classList = c1,
                       !.secondaryElements = Append(@, CapturedData(c1, e)),
                       !.secondaryActualElement = Append(@, e)],
             "notify-secondary-selected")

\* A slip: the secondary branch records the element reference but not its data.
DualClickSecondaryNoData(s, e) ==
    IF ~Contains(s.classList[e], SecondaryClass) /\ e # s.lockedElement
    THEN LET c1 == [s.classList EXCEPT
                       ![e] = ClassAdd(ClassRemove(@, HighlightClass), SecondaryClass)]
         IN Fetch([s EXCEPT !.classList = c1,
                            !.secondaryActualElement = Append(@, e)],
                  "notify-secondary-selected")
    ELSE s

\* The secondary (green) branch of the dual-role click listener.
DualClickSecondary(s, e) ==
    IF ~Contains(s.classList[e], SecondaryClass) /\ e # s.lockedElement
    THEN LET c1 == [s.classList EXCEPT
                       ![e] = ClassAdd(ClassRemove(@, HighlightClass), SecondaryClass)]
         IN Fetch([s EXCEPT !.classList = c1,
                            !.secondaryElements = Append(@, CapturedData(c1, e)),
                            !.secondaryActualElement = Append(@, e)],
                  "notify-secondary-selected")
    ELSE s

\* window._annotationClickListener of the dual-role script.
DualClick(s, e) ==
    IF ~s.annotationMode THEN s
    ELSE IF ~s.elementLocked THEN DualClickPrimary(Cancel(s), e)
    ELSE DualClickSecondary(Cancel(s), e)

\* The class lists with class c removed from every element of the sequence els.
RECURSIVE RemoveFromAll(_, _, _)
RemoveFromAll(cls, els, c) ==
    IF els = <<>> THEN cls
    ELSE RemoveFromAll([cls EXCEPT ![Head(els)] = ClassRemove(@, c)], Tail(els), c)

\* A slip: unlockElement drops the reference to the primary element without
\* taking the primary class off it.
DualUnlockKeepsClass(s) ==
    LET s2 == [s EXCEPT !.lockedElement = Null,
                        !.elementLocked = FALSE,
                        !.selectedElement = NoData]
    IN IF Len(s2.secondaryActualElement) > 0
       THEN [s2 EXCEPT !.classList = RemoveFromAll(s2.classList,
                                         s2.secondaryActualElement, SecondaryClass),
                       !.secondaryElements = <<>>,
                       !.secondaryActualElement = <<>>]
       ELSE s2

\* A slip: unlockElement releases the primary and leaves the secondaries.
DualUnlockForgetsSecondaries(s) ==
    LET s1 == IF s.lockedElement # Null
              THEN [s EXCEPT !.classList[s.lockedElement] = ClassRemove(@, PrimaryClass),
                             !.lockedElement = Null]
              ELSE s
    IN [s1 EXCEPT !.elementLocked = FALSE, !.selectedElement = NoData]

\* window.unlockElement of the dual-role script (its return value is true).
DualUnlock(s) ==
    LET s1 == IF s.lockedElement # Null
              THEN [s EXCEPT !.classList[s.lockedElement] = ClassRemove(@, PrimaryClass),
                             !.lockedElement = Null]
              ELSE s
        s2 == [s1 EXCEPT !.elementLocked = FALSE, !.selectedElement = NoData]
    IN IF Len(s2.secondaryActualElement) > 0
       THEN [s2 EXCEPT !.classList = RemoveFromAll(s2.classList,
                                         s2.secondaryActualElement, SecondaryClass),
                       !.secondaryElements = <<>>,
                       !.secondaryActualElement = <<>>]
       ELSE s2

\* A slip: disabling the mode clears the secondary data without unlocking.
DualSetModeNoUnlock(s, enabled) ==
    LET s1 == [s EXCEPT !.annotationMode = enabled]
    IN IF enabled THEN s1 ELSE [s1 EXCEPT !.secondaryElements = <<>>]

\* window.setAnnotationMode of the dual-role script; enabled is !!enabled.
DualSetMode(s, enabled) ==
    LET s1 == [s EXCEPT !.annotationMode = enabled]
    IN IF enabled THEN s1
       ELSE [DualUnlock(s1) EXCEPT !.secondaryElements = <<>>]

\* ----------------------------------------------- single-lock script handlers

\* A slip: the single-lock hover handler does not look at the locked flag.
SingleMouseoverIgnoresLock(s, e) ==
    IF ~s.annotationMode THEN s
    ELSE IF Contains(s.classList[e], LockedClass) THEN s
    ELSE LET prev == s.currentHighlightedElement
             c1 == IF prev # Null /\ prev # e
                   THEN [s.classList EXCEPT ![prev] = ClassRemove(@, HighlightClass)]
                   ELSE s.classList
         IN [s EXCEPT !.classList = [c1 EXCEPT ![e] = ClassAdd(@, HighlightClass)],
                      !.currentHighlightedElement = e]

\* window._annotationMouseoverListener of the single-lock script.
SingleMouseover(s, e) ==
    IF ~s.annotationMode \/ s.elementLocked THEN s
    ELSE IF Contains(s.classList[e], LockedClass) THEN s
    ELSE LET prev == s.currentHighlightedElement
             c1 == IF prev # Null /\ prev # e
                   THEN [s.classList EXCEPT ![prev] = ClassRemove(@, HighlightClass)]
                   ELSE s.classList
             c2 == IF ~Contains(c1[e], LockedClass)
                   THEN [c1 EXCEPT ![e] = ClassAdd(@, HighlightClass)]
                   ELSE c1
         IN [s EXCEPT !.classList = c2, !.currentHighlightedElement = e]

\* window._annotationMouseoutListener of the single-lock script.
SingleMouseout(s, e) ==
    IF ~s.annotationMode \/ s.elementLocked THEN s
    ELSE IF e = s.currentHighlightedElement /\ ~s.elementLocked
    THEN [s EXCEPT !.classList[e] = ClassRemove(@, HighlightClass),
                   !.currentHighlightedElement = Null]
    ELSE s

\* A slip: the single-lock click listener notifies before it records the
\* selection.
SingleClickLockNotifiesFirst(s, e) ==
    LET n == Fetch(s, "notify-element-selected")
        prev == n.currentHighlightedElement
        c1 == IF prev # Null
              THEN [n.classList EXCEPT ![prev] = ClassRemove(@, HighlightClass)]
              ELSE n.classList
        c2 == [c1 EXCEPT ![e] = ClassAdd(ClassRemove(@, HighlightClass), LockedClass)]
    IN [n EXCEPT !.elementLocked = TRUE,
                 !.classList = c2,
                 !.selectedElement = CapturedData(c2, e),
                 !.lockedElement = e]

\* The locking part of the single-lock click listener, after its guards.
SingleClickLock(s, e) ==
    LET prev == s.currentHighlightedElement
        c1 == IF prev # Null
              THEN [s.classList EXCEPT ![prev] = ClassRemove(@, HighlightClass)]
              ELSE s.classList
        c2 == [c1 EXCEPT ![e] = ClassAdd(ClassRemove(@, HighlightClass), LockedClass)]
    IN Fetch([s EXCEPT !.elementLocked = TRUE,
                       !.classList = c2,
                       !.selectedElement = CapturedData(c2, e),
                       !.lockedElement = e],
             "notify-element-selected")

\* A slip: the early return for an already locked element is taken before the
\* event is cancelled.
SingleClickLateCancel(s, e) ==
    IF ~s.annotationMode THEN s
    ELSE IF s.elementLocked THEN s
    ELSE SingleClickLock(Cancel(s), e)

\* A slip: the single-lock click listener without its early return when an
\* element is already locked.
SingleClickRelocks(s, e) ==
    IF ~s.annotationMode THEN s
    ELSE SingleClickLock(Cancel(s), e)

\* window._annotationClickListener of the single-lock script.
SingleClick(s, e) ==
    IF ~s.annotationMode THEN s
    ELSE IF s.elementLocked THEN Cancel(s)
    ELSE SingleClickLock(Cancel(s), e)

\* A slip: unlockElement drops the reference to the locked element without
\* taking the locked class off it.
SingleUnlockKeepsClass(s) ==
    [s EXCEPT !.lockedElement = Null,
              !.elementLocked = FALSE,
              !.selectedElement = NoData]

\* window.unlockElement of the single-lock script (its return value is true).
SingleUnlock(s) ==
    LET s1 == IF s.lockedElement # Null
              THEN [s EXCEPT !.classList[s.lockedElement] = ClassRemove(@, LockedClass),
                             !.lockedElement = Null]
              ELSE s
    IN [s1 EXCEPT !.elementLocked = FALSE, !.selectedElement = NoData]

\* window.setAnnotationMode of the single-lock script; enabled is !!enabled.
SingleSetMode(s, enabled) ==
    LET s1 == [s EXCEPT !.annotationMode = enabled]
    IN IF enabled THEN s1 ELSE SingleUnlock(s1)

\* -------------------------------------------- input suppressors (both scripts)

\* A slip: the keydown listener looks at isContentEditable only.
KeydownListenerEditableOnly(s, e) ==
    IF s.annotationMode /\ s.targetEditable THEN Cancel(s) ELSE s

\* window._annotationKeydownListener.
KeydownListener(s, e) ==
    IF /\ s.annotationMode
       /\ (TagName(e) = "INPUT" \/ TagName(e) = "TEXTAREA" \/ s.targetEditable)
    THEN Cancel(s) ELSE s

\* window._annotationSelectListener (mousedown).
SelectListener(s, e) ==
    IF s.annotationMode /\ TagName(e) = "SELECT" THEN Cancel(s) ELSE s

\* A slip: the change listener does not look at the mode.
ChangeListenerAlways(s, e) == Cancel(s)

\* window._annotationChangeListener.
ChangeListener(s, e) ==
    IF s.annotationMode THEN Cancel(s) ELSE s

\* ------------------------------------------------------------ listener lists

\* The closure created at `line` of `script` for events of `type` by the
\* `run`-th setup that got as far as creating closures.
Closure(script, type, line, run) ==
    [script |-> script, type |-> type, line |-> line, run |-> run]

\* The useCapture argument each script passes for an event type, to
\* addEventListener and to removeEventListener alike.
UseCapture(type) == type \notin {"mouseover", "mouseout"}

\* window.addEventListener(type, fn, capture): a listener already in the list
\* with the same type, callback and capture flag is not added again.
AddEventListener(att, type, fn) ==
    LET l == [type |-> type, callback |-> fn, capture |-> UseCapture(type)]
    IN IF \E i \in 1..Len(att) : att[i] = l THEN att ELSE Append(att, l)

\* window.removeEventListener(type, fn, capture)
RemoveEventListener(att, type, fn) ==
    LET l == [type |-> type, callback |-> fn, capture |-> UseCapture(type)]
    IN SelectSeq(att, LAMBDA x: x # l)

\* `if (window._annotationXListener) window.removeEventListener(...)`, for the
\* six stored references in turn.
RemovePrevious(att, stored) ==
    LET Rm(a, type) == IF stored[type] # NoListener
                       THEN RemoveEventListener(a, type, stored[type])
                       ELSE a
    IN Rm(Rm(Rm(Rm(Rm(Rm(att, "mouseover"), "mouseout"), "click"),
                "keydown"), "mousedown"), "change")

\* The listeners the dual-role script attaches, in the order it attaches them.
DualAttach(att, run) ==
    LET Add(a, type, line) == AddEventListener(a, type, Closure("dual", type, line, run))
    IN Add(Add(Add(Add(Add(Add(att, "mouseover", 61), "mouseout", 78), "click", 88),
                   "keydown", 146), "mousedown", 156), "change", 167)

\* The references the dual-role script leaves in window._annotation*Listener.
DualStored(run) ==
    [type \in EventTypes |->
        Closure("dual", type,
                CASE type = "mouseover" -> 61 [] type = "mouseout" -> 78
                  [] type = "click" -> 88 [] type = "keydown" -> 146
                  [] type = "mousedown" -> 156 [] type = "change" -> 167,
                run)]

\* A plausible slip in the single-lock script: the first definitions of the
\* keydown, mousedown and change listeners (lines 319-345) are attached as well.
SingleAttachBoth(att, run) ==
    LET Add(a, type, line) == AddEventListener(a, type, Closure("single", type, line, run))
    IN Add(Add(Add(Add(Add(Add(Add(Add(Add(att,
           "keydown", 319), "mousedown", 329), "change", 340),
           "mouseover", 302), "mouseout", 349), "click", 360),
           "keydown", 401), "mousedown", 411), "change", 422)

\* The listeners the single-lock script attaches, in the order it attaches
\* them.  The closures of lines 319-345 are stored and overwritten at lines
\* 401-427 without ever being attached.
SingleAttach(att, run) ==
    LET Add(a, type, line) == AddEventListener(a, type, Closure("single", type, line, run))
    IN Add(Add(Add(Add(Add(Add(att, "mouseover", 302), "mouseout", 349), "click", 360),
                   "keydown", 401), "mousedown", 411), "change", 422)

\* The references the single-lock script leaves in window._annotation*Listener.
SingleStored(run) ==
    [type \in EventTypes |->
        Closure("single", type,
                CASE type = "mouseover" -> 302 [] type = "mouseout" -> 349
                  [] type = "click" -> 360 [] type = "keydown" -> 401
                  [] type = "mousedown" -> 411 [] type = "change" -> 422,
                run)]

\* Calling one listener closure with the event's target.
Invoke(fn, s, e) ==
    CASE fn.type = "mouseover" /\ fn.script = "dual" -> DualMouseover(s, e)
      [] fn.type = "mouseover" /\ fn.script = "single" -> SingleMouseover(s, e)
      [] fn.type = "mouseout" /\ fn.script = "dual" -> DualMouseout(s, e)
      [] fn.type = "mouseout" /\ fn.script = "single" -> SingleMouseout(s, e)
      [] fn.type = "click" /\ fn.script = "dual" -> DualClick(s, e)
      [] fn.type = "click" /\ fn.script = "single" -> SingleClick(s, e)
      [] fn.type = "keydown" -> KeydownListener(s, e)
      [] fn.type = "mousedown" -> SelectListener(s, e)
      [] fn.type = "change" -> ChangeListener(s, e)

\* The browser's dispatch at window: the listeners of the event's type run in
\* registration order until one calls stopImmediatePropagation.
RECURSIVE RunListeners(_, _, _)
RunListeners(ls, s, e) ==
    IF ls = <<>> \/ s.propagationStopped THEN s
    ELSE RunListeners(Tail(ls), Invoke(Head(ls).callback, s, e), e)

\* The state after an event of `type` with target e went through window.
Dispatched(type, e) ==
    RunListeners(SelectSeq(attached, LAMBDA l: l.type = type), Session, e)

\* The same for an event whose target is content-editable or not, as told.
DispatchedEditable(type, e, editable) ==
    RunListeners(SelectSeq(attached, LAMBDA l: l.type = type),
                 [Session EXCEPT !.targetEditable = editable], e)

\* ------------------------------------------------------- the new-tab script

\* The href of the page's link.
AnchorHref == "https://example.org/"

\* The link as the page author wrote it.  "" stands for an absent attribute:
\* getAttribute then returns null, which the script treats like "".
AnchorForms ==
    {[target |-> "_blank", rel |-> "noopener noreferrer"],
     [target |-> "", rel |-> "noopener noreferrer"]}

\* element.parentElement: null above the html element.
ParentElement(n) == IF n = HtmlNode THEN Null ELSE ParentNode(n)

\* The loop of the document click listener: the nearest link at or above the
\* target, searched up to but not including document.body.
RECURSIVE ClosestAnchor(_)
ClosestAnchor(n) ==
    IF n = Null \/ n = BodyElem THEN Null
    ELSE IF TagName(n) = "A" THEN n
    ELSE ClosestAnchor(ParentElement(n))

\* rel?.includes(token) on the rel values links carry here.
RelIncludes(rel, token) == rel = token \/ rel = "noopener noreferrer"

\* href && !href.startsWith('javascript:')
HrefNavigates(href) == href # "" /\ href # "javascript:void(0)"

\* The links document.querySelectorAll selects in processLinks: the attribute
\* selectors match whole values only.
SelectedByProcessLinks(a) ==
    a.target = "_blank" \/ a.rel = "noopener" \/ a.rel = "noreferrer"

\* processLinks on the link's attributes: target and rel are removed.
ProcessLinks(a) ==
    IF SelectedByProcessLinks(a) THEN [target |-> "", rel |-> ""] ELSE a

\* The click listener processLinks puts on document (capture phase).
DocumentClickListener(s, e) ==
    IF /\ ClosestAnchor(e) # Null
       /\ \/ anchorAttrs.target = "_blank"
          \/ RelIncludes(anchorAttrs.rel, "noopener")
          \/ RelIncludes(anchorAttrs.rel, "noreferrer")
    THEN [s EXCEPT !.defaultPrevented = TRUE,
                   !.navigated = HrefNavigates(AnchorHref)]
    ELSE s

\* The k listeners on document run in turn; none of them stops propagation.
RECURSIVE RunDocumentListeners(_, _, _)
RunDocumentListeners(k, s, e) ==
    IF k = 0 \/ s.propagationStopped THEN s
    ELSE RunDocumentListeners(k - 1, DocumentClickListener(s, e), e)

\* The state after an event of `type` with target e went down the capture
\* path: window first, then document unless propagation was stopped.
DispatchedPath(type, e, editable) ==
    LET w == DispatchedEditable(type, e, editable)
    IN IF type = "click" THEN RunDocumentListeners(documentClickListeners, w, e)
       ELSE w

\* What the browser does by itself after the dispatch, unless preventDefault
\* was called: follow a clicked link, put the key's character into a text
\* field, open a dropdown.  A change event has no default action.
DefaultAction(type, e, s) ==
    CASE s.defaultPrevented -> "none"
      [] type = "click" /\ ClosestAnchor(e) # Null -> "followLink"
      [] /\ type = "keydown"
         /\ (TagName(e) \in {"INPUT", "TEXTAREA"} \/ s.targetEditable) -> "insertText"
      [] type = "mousedown" /\ TagName(e) = "SELECT" -> "openDropdown"
      [] OTHER -> "none"

\* ------------------------------------------------------------------ actions

\* What an operation left for its caller to observe, and whether an element
\* was locked when the operation began.
Outcome(op, s, returned) ==
    [op |-> op,
     lockedBefore |-> elementLocked,
     defaultPrevented |-> s.defaultPrevented,
     propagationStopped |-> s.propagationStopped,
     fetched |-> s.fetched,
     navigated |-> s.navigated,
     targetEditable |-> s.targetEditable,
     defaultAction |-> "none",
     returned |-> returned]

\* The window globals and class lists take the values the handlers left.
Commit(s) ==
    /\ annotationMode' = s.annotationMode
    /\ selectedElement' = s.selectedElement
    /\ elementLocked' = s.elementLocked
    /\ currentHighlightedElement' = s.currentHighlightedElement
    /\ lockedElement' = s.lockedElement
    /\ secondaryActualElement' = s.secondaryActualElement
    /\ secondaryElements' = s.secondaryElements
    /\ classList' = s.classList

\* State of the page before any script ran.  The session globals are still
\* undefined: FALSE, NoData, Null and <<>> stand for that.
InitEngine ==
    /\ documentHead = FALSE
    /\ styleNodes = 0
    /\ annotationSetupDone = FALSE
    /\ installed = "none"
    /\ setupRuns = 0
    /\ storedListener = [type \in EventTypes |-> NoListener]
    /\ attached = <<>>
    /\ annotationMode = FALSE
    /\ selectedElement = NoData
    /\ elementLocked = FALSE
    /\ currentHighlightedElement = Null
    /\ lockedElement = Null
    /\ secondaryActualElement = <<>>
    /\ secondaryElements = <<>>
    /\ classList = [e \in Elems |-> <<>>]
    /\ lastOp = Outcome("load", Session, "undefined")
    /\ lastEntered = Null
    /\ setupThrew = FALSE
    /\ preventNewTabsSetupDone = FALSE
    /\ documentClickListeners = 0
    /\ fetchPending = FALSE
    /\ xpNode = Null
    /\ xpResult = "undefined"

\* The page with a link that opens a new tab.
Init ==
    /\ InitEngine
    /\ anchorAttrs = [target |-> "_blank", rel |-> "noopener noreferrer"]
    /\ xpDoc = Skeleton

\* The parser creates the head element.
HeadParsed ==
    /\ ~documentHead
    /\ documentHead' = TRUE
    /\ lastOp' = Outcome("parse", Session, "undefined")
    /\ UNCHANGED <<styleNodes, annotationSetupDone, installed, setupRuns,
                   storedListener, attached, sessionVars, classList, historyVars,
                   newTabVars, fetchPending, xpathVars>>

\* `if (oldStyle) oldStyle.remove()`: the style nodes left.
OldStyleRemoved == IF styleNodes > 0 THEN styleNodes - 1 ELSE styleNodes

\* How a setup invocation ends: the early return and the normal end return
\* undefined, appendChild on a null document.head throws.
SetupResult ==
    IF ~annotationSetupDone /\ ~documentHead THEN "TypeError" ELSE "undefined"

\* The dual-role script past its guard.  document.head.appendChild throws when
\* document.head is null; nothing after it can throw.
SetupDualBody ==
    IF ~documentHead
    THEN /\ styleNodes' = OldStyleRemoved
         /\ setupThrew' = TRUE
         /\ UNCHANGED <<documentHead, annotationSetupDone, installed, setupRuns,
                        storedListener, attached, sessionVars, classList>>
    ELSE /\ styleNodes' = OldStyleRemoved + 1
         /\ annotationMode' = FALSE
         /\ selectedElement' = NoData
         /\ elementLocked' = FALSE
         /\ currentHighlightedElement' = Null
         /\ lockedElement' = Null
         /\ secondaryActualElement' = <<>>
         /\ secondaryElements' = <<>>
         /\ attached' = DualAttach(RemovePrevious(attached, storedListener), setupRuns + 1)
         /\ storedListener' = DualStored(setupRuns + 1)
         /\ installed' = "dual"
         /\ setupRuns' = setupRuns + 1
         /\ annotationSetupDone' = TRUE
         /\ UNCHANGED <<documentHead, classList, setupThrew>>

\* A slip: the dual-role script without its `_annotationSetupDone` guard.
SetupDualUnguarded ==
    /\ lastOp' = Outcome("setupDual", Session, SetupResult)
    /\ UNCHANGED <<lastEntered, newTabVars, fetchPending, xpathVars>>
    /\ SetupDualBody

\* The host injects the dual-role script.
SetupDual ==
    /\ lastOp' = Outcome("setupDual", Session, SetupResult)
    /\ UNCHANGED <<lastEntered, newTabVars, fetchPending, xpathVars>>
    /\ IF annotationSetupDone
       THEN UNCHANGED <<setupVars, sessionVars, classList, setupThrew>>
       ELSE SetupDualBody

\* The single-lock script past its guard; it has no secondary collections.
SetupSingleBody ==
    IF ~documentHead
    THEN /\ styleNodes' = OldStyleRemoved
         /\ setupThrew' = TRUE
         /\ UNCHANGED <<documentHead, annotationSetupDone, installed, setupRuns,
                        storedListener, attached, sessionVars, classList>>
    ELSE /\ styleNodes' = OldStyleRemoved + 1
         /\ annotationMode' = FALSE
         /\ selectedElement' = NoData
         /\ elementLocked' = FALSE
         /\ currentHighlightedElement' = Null
         /\ lockedElement' = Null
         /\ attached' = SingleAttach(RemovePrevious(attached, storedListener), setupRuns + 1)
         /\ storedListener' = SingleStored(setupRuns + 1)
         /\ installed' = "single"
         /\ setupRuns' = setupRuns + 1
         /\ annotationSetupDone' = TRUE
         /\ UNCHANGED <<documentHead, classList, secondaryActualElement,
                        secondaryElements, setupThrew>>

\* The host injects the single-lock script.
SetupSingle ==
    /\ lastOp' = Outcome("setupSingle", Session, SetupResult)
    /\ UNCHANGED <<lastEntered, newTabVars, fetchPending, xpathVars>>
    /\ IF annotationSetupDone
       THEN UNCHANGED <<setupVars, sessionVars, classList, setupThrew>>
       ELSE SetupSingleBody

\* An event of `type` with target e goes down the capture path; s is what the
\* listeners left.
DispatchEvent(type, e, editable) ==
    \E s \in {DispatchedPath(type, e, editable)} :
       /\ Commit(s)
       /\ lastOp' = [Outcome(type, s, "undefined") EXCEPT
                        !.defaultAction = DefaultAction(type, e, s)]
       /\ fetchPending' = (fetchPending \/ s.fetched # <<>>)
       /\ UNCHANGED <<setupVars, newTabVars, xpathVars>>

\* An event whose target is not content-editable.
Dispatch(type, e) == DispatchEvent(type, e, FALSE)

\* The element carries one of the locked-role classes.
HasRoleClass(e) ==
    \/ Contains(classList[e], PrimaryClass)
    \/ Contains(classList[e], SecondaryClass)
    \/ Contains(classList[e], LockedClass)

\* The pointer enters element e.
Mouseover(e) ==
    /\ Dispatch("mouseover", e)
    /\ UNCHANGED setupThrew
    /\ lastEntered' = IF annotationMode /\ ~HasRoleClass(e) THEN e ELSE lastEntered

\* The pointer leaves element e.
Mouseout(e) == Dispatch("mouseout", e) /\ UNCHANGED historyVars

\* The user clicks element e.
Click(e) == Dispatch("click", e) /\ UNCHANGED historyVars

\* A key goes down with the focus on element e, content-editable or not.
Keydown(e, editable) == DispatchEvent("keydown", e, editable) /\ UNCHANGED historyVars

\* A mouse button goes down on element e.
Mousedown(e) == Dispatch("mousedown", e) /\ UNCHANGED historyVars

\* Element e fires a change event.
Change(e) == Dispatch("change", e) /\ UNCHANGED historyVars

\* window.unlockElement as installed by the script that completed setup.
Unlock(s) == IF installed = "dual" THEN DualUnlock(s) ELSE SingleUnlock(s)

\* The host calls window.unlockElement().
UnlockElement ==
    /\ installed # "none"
    /\ Commit(Unlock(Session))
    /\ lastOp' = Outcome("unlockElement", Session, "true")
    /\ UNCHANGED <<setupVars, historyVars, newTabVars, fetchPending, xpathVars>>

\* The values the host passes to setAnnotationMode, as JavaScript literals.
ModeInputs == {"true", "false", "1", "null"}

\* !!enabled
ToBoolean(v) == v \notin {"false", "0", "null", "undefined", "''", "NaN"}

\* window.setAnnotationMode as installed by the script that completed setup.
SetMode(s, enabled) ==
    IF installed = "dual" THEN DualSetMode(s, enabled) ELSE SingleSetMode(s, enabled)

\* The host calls window.setAnnotationMode(v).
SetAnnotationMode(v) ==
    /\ installed # "none"
    /\ Commit(SetMode(Session, ToBoolean(v)))
    /\ lastOp' = Outcome("setAnnotationMode", Session, "undefined")
    /\ UNCHANGED <<setupVars, historyVars, newTabVars, fetchPending, xpathVars>>

Next ==
    \/ HeadParsed
    \/ SetupDual
    \/ SetupSingle
    \/ \E e \in Elems : Mouseover(e)
    \/ \E e \in Elems : Mouseout(e)
    \/ \E e \in Elems : Click(e)
    \/ \E e \in Elems, editable \in BOOLEAN : Keydown(e, editable)
    \/ \E e \in Elems : Mousedown(e)
    \/ \E e \in Elems : Change(e)
    \/ UnlockElement
    \/ \E v \in ModeInputs : SetAnnotationMode(v)

Spec == Init /\ [][Next]_vars

\* The host injects the new-tab script.  Its MutationObserver watches for
\* nodes added below body; nothing here adds any, so it never calls back.
SetupNewTab ==
    /\ lastOp' = Outcome("setupNewTab", Session,
                         IF preventNewTabsSetupDone THEN "undefined"
                         ELSE "New tab prevention script injected successfully")
    /\ IF preventNewTabsSetupDone
       THEN UNCHANGED newTabVars
       ELSE /\ preventNewTabsSetupDone' = TRUE
            /\ anchorAttrs' = ProcessLinks(anchorAttrs)
            /\ documentClickListeners' = documentClickListeners + 1
    /\ UNCHANGED <<setupVars, sessionVars, classList, historyVars, fetchPending,
                   xpathVars>>

\* How a request can end; one that never completes has no step at all.
FetchOutcomes == {"resolved", "rejected"}

\* A request in flight settles; others may still be in flight after it.
FetchSettles(outcome) ==
    /\ fetchPending
    /\ Commit(OnFetchSettled(Session, outcome))
    /\ lastOp' = Outcome("fetchSettled", Session, outcome)
    /\ fetchPending' \in BOOLEAN
    /\ UNCHANGED <<setupVars, historyVars, newTabVars, xpathVars>>

NextNet == Next \/ \E outcome \in FetchOutcomes : FetchSettles(outcome)

\* The scripts with the network answering their requests.
SpecNet == Init /\ [][NextNet]_vars

\* The page of any author, with both scripts available to the host.
InitNewTab == InitEngine /\ anchorAttrs \in AnchorForms /\ xpDoc = Skeleton

NextNewTab == Next \/ SetupNewTab

SpecNewTab == InitNewTab /\ [][NextNewTab]_vars

\* Some document, before either script has been injected into it.
InitXPath ==
    /\ InitEngine
    /\ anchorAttrs = [target |-> "_blank", rel |-> "noopener noreferrer"]
    /\ xpDoc \in Docs

\* getXPath is called with element n of the document.
CallGetXPath(n) ==
    /\ xpNode' = n
    /\ xpResult' = XPathIn(xpDoc, n)
    /\ UNCHANGED <<setupVars, sessionVars, classList, lastOp, historyVars,
                   newTabVars, fetchPending, xpDoc>>

NextXPath == \E n \in ElementsOf(xpDoc) : CallGetXPath(n)

\* getXPath as a function of its own, over the documents of Docs.
SpecXPath == InitXPath /\ [][NextXPath]_vars

\* ------------------------------------------------------------------- claims

\* Elements carrying the primary class (dual-role) or the locked class (single-lock).
PrimaryOrLocked(cls) == Carrying(cls, PrimaryClass) \cup Carrying(cls, LockedClass)

\* The members of a sequence.
Range(q) == {q[i] : i \in 1..Len(q)}

\* The number of listeners of one event type attached to window.
AttachedCount(type) == Cardinality({i \in 1..Len(attached) : attached[i].type = type})

\* C1: re-injection is a no-op.  When the setup-done flag is set, a setup
\* invocation of either script leaves the style nodes, the stored and attached
\* listeners, the installed functions, the mode, the locked flag, the locked
\* element, the captures, the secondary collections and every class list as
\* they were.
C1_ReinjectionNoOp ==
    [][(annotationSetupDone /\ (SetupDual \/ SetupSingle))
        => UNCHANGED <<setupVars, sessionVars, classList>>]_vars

\* The single-lock script was injected over a completed dual-role setup that
\* holds a primary and a secondary selection.
C1_Witness ==
    /\ lastOp.op = "setupSingle"
    /\ installed = "dual"
    /\ annotationMode
    /\ elementLocked
    /\ Len(secondaryActualElement) > 0

\* C2: after any number of setup invocations, aborted and retried ones and
\* invocations of either script included, window has at most one listener of
\* each of the six event types and the document has at most one style node
\* with id 'annotation-styles'.
C2_AtMostOneListener ==
    /\ \A type \in EventTypes : AttachedCount(type) <= 1
    /\ styleNodes <= 1

\* A setup threw, a later one completed, and the other script was injected
\* after that: all six listeners and the style node are there once.
C2_Witness ==
    /\ setupThrew
    /\ annotationSetupDone
    /\ lastOp.op = "setupDual"
    /\ installed = "single"
    /\ \A type \in EventTypes : AttachedCount(type) = 1
    /\ styleNodes = 1

\* C3: in every reachable state at most one element carries the primary class
\* (dual-role) or the locked class (single-lock).
C3_AtMostOnePrimary == Cardinality(PrimaryOrLocked(classList)) <= 1

\* Clicks went on after a primary was locked: the primary is the only carrier
\* while two secondaries are selected.
C3_Witness ==
    /\ lastOp.op = "click"
    /\ lastOp.lockedBefore
    /\ PrimaryOrLocked(classList) = {lockedElement}
    /\ Len(secondaryActualElement) >= 2

\* C4: at most one element carries the highlight class, and when one does it
\* is the element most recently entered, while the mode was on, that carried
\* no locked-role class when it was entered.
C4_SingleHighlight ==
    /\ Cardinality(Carrying(classList, HighlightClass)) <= 1
    /\ \A e \in Carrying(classList, HighlightClass) : e = lastEntered

\* The pointer entered an element while another one is locked as primary and
\* the entered element is the one highlighted.
C4_Witness ==
    /\ lastOp.op = "mouseover"
    /\ elementLocked
    /\ lastEntered # lockedElement
    /\ Carrying(classList, HighlightClass) = {lastEntered}

\* The state unlockElement promises: no element carries a primary, locked or
\* secondary class, nothing is locked, no capture and no secondary is stored.
Unlocked(s) ==
    /\ PrimaryOrLocked(s.classList) = {}
    /\ Carrying(s.classList, SecondaryClass) = {}
    /\ ~s.elementLocked
    /\ s.lockedElement = Null
    /\ s.selectedElement = NoData
    /\ s.secondaryElements = <<>>
    /\ s.secondaryActualElement = <<>>

\* C5: single-lock policy.  A click while the mode is on and nothing is locked
\* locks the click target and only it; a click while an element is locked
\* leaves the locked flag, the locked element, the stored capture and every
\* class list unchanged.
C5_SingleLockPolicy ==
    [][\A e \in Elems :
        (installed = "single" /\ annotationMode /\ Click(e)) =>
            IF elementLocked
            THEN UNCHANGED <<elementLocked, lockedElement, selectedElement, classList>>
            ELSE /\ elementLocked'
                 /\ lockedElement' = e
                 /\ Carrying(classList', LockedClass) = {e}
                 /\ selectedElement' = CapturedData(classList', e)]_vars

\* A click arrived while an element was locked: it was cancelled, issued no
\* notification, and the lock is still there.
C5_Witness ==
    /\ installed = "single"
    /\ lastOp.op = "click"
    /\ lastOp.lockedBefore
    /\ lastOp.defaultPrevented
    /\ lastOp.fetched = <<>>
    /\ elementLocked
    /\ Carrying(classList, LockedClass) = {lockedElement}

\* C6: dual-role policy.  With a primary locked, a click on an element that is
\* neither the primary nor a secondary appends one entry to each of the two
\* secondary collections and leaves the primary and its capture unchanged; and
\* in every state the collections have the same length and entry i of
\* secondaryElements is the capture of element i of secondaryActualElement.
C6_SecondaryAligned ==
    /\ [](/\ Len(secondaryElements) = Len(secondaryActualElement)
          /\ \A i \in 1..Len(secondaryActualElement) :
                secondaryElements[i] = CapturedData(classList, secondaryActualElement[i]))
    /\ [][\A e \in Elems :
            (/\ installed = "dual" /\ annotationMode /\ elementLocked
             /\ e # lockedElement /\ e \notin Range(secondaryActualElement)
             /\ Click(e)) =>
                /\ secondaryActualElement' = Append(secondaryActualElement, e)
                /\ secondaryElements'
                     = Append(secondaryElements, CapturedData(classList', e))
                /\ UNCHANGED <<lockedElement, selectedElement>>]_vars

\* A second secondary was just appended by a click.
C6_Witness ==
    /\ installed = "dual"
    /\ lastOp.op = "click"
    /\ lastOp.fetched = <<"notify-secondary-selected">>
    /\ Len(secondaryActualElement) = 2
    /\ Len(secondaryElements) = 2

\* C7: dual-role policy.  An element carrying the primary or the secondary
\* class gets no highlight class from a pointer-enter and is not appended to
\* the secondary collections by a click; secondaryActualElement holds no
\* element twice and never holds the primary element.
C7_NoReselection ==
    /\ [](/\ \A i, j \in 1..Len(secondaryActualElement) :
                secondaryActualElement[i] = secondaryActualElement[j] => i = j
          /\ lockedElement \notin Range(secondaryActualElement))
    /\ [][\A e \in Elems :
            (/\ installed = "dual"
             /\ (Contains(classList[e], PrimaryClass)
                 \/ Contains(classList[e], SecondaryClass))) =>
                /\ (lastOp'.op = "mouseover" /\ Mouseover(e))
                     => ~Contains(classList'[e], HighlightClass)
                /\ (lastOp'.op = "click" /\ Click(e))
                     => UNCHANGED <<secondaryActualElement, secondaryElements>>]_vars

\* A click on the primary or on a secondary was cancelled and selected nothing.
C7_Witness ==
    /\ installed = "dual"
    /\ lastOp.op = "click"
    /\ lastOp.lockedBefore
    /\ lastOp.defaultPrevented
    /\ lastOp.fetched = <<>>
    /\ Len(secondaryActualElement) >= 1

\* C8: once a script is installed, unlockElement returns true and leaves no
\* element with a primary, locked or secondary class, the locked flag false,
\* no locked element, no capture and empty secondary collections; a second
\* call right after it gives the state the first call gave.
C8_UnlockIdempotent ==
    /\ [](installed # "none" =>
            /\ Unlocked(Unlock(Session))
            /\ Unlock(Unlock(Session)) = Unlock(Session))
    /\ [][UnlockElement =>
            /\ lastOp'.returned = "true"
            /\ Unlocked(Session)'
            /\ UNCHANGED <<annotationMode, currentHighlightedElement>>]_vars

\* unlockElement was called while an element was locked.
C8_Witness ==
    /\ lastOp.op = "unlockElement"
    /\ lastOp.lockedBefore
    /\ lastOp.returned = "true"
    /\ ~elementLocked
    /\ annotationMode

\* C9: setAnnotationMode with a falsy argument leaves the locked flag false,
\* no locked element, empty secondary collections and no element with a
\* primary, locked or secondary class.
C9_ModeOffUnlocks ==
    (lastOp.op = "setAnnotationMode" /\ ~annotationMode) => Unlocked(Session)

\* The mode was turned off while an element was locked.
C9_Witness ==
    /\ lastOp.op = "setAnnotationMode"
    /\ lastOp.lockedBefore
    /\ ~annotationMode
    /\ ~elementLocked

\* C10: whenever the mode is turned off every session field is back to its
\* initial empty state: nothing is locked, the tracked highlighted element is
\* null and no element carries the highlight class.
C10_ModeOffResetsAll ==
    (lastOp.op = "setAnnotationMode" /\ ~annotationMode) =>
        /\ Unlocked(Session)
        /\ currentHighlightedElement = Null
        /\ Carrying(classList, HighlightClass) = {}

\* C11: while the mode is active every click, whether it selects something or
\* not, has preventDefault and stopImmediatePropagation called on it by the
\* window capture listener, so the browser's default action does not happen
\* and the new-tab script's click listener on document does not run and does
\* not assign window.location.
C11_ClickCancelled ==
    (lastOp.op = "click" /\ annotationMode) =>
        /\ lastOp.defaultPrevented
        /\ lastOp.propagationStopped
        /\ lastOp.defaultAction = "none"
        /\ ~lastOp.navigated

\* With the new-tab script's listener on document and a link it would redirect,
\* a click in active mode landed while an element was already locked.
C11_Witness ==
    /\ lastOp.op = "click"
    /\ annotationMode
    /\ lastOp.lockedBefore
    /\ lastOp.fetched = <<>>
    /\ lastOp.defaultPrevented
    /\ documentClickListeners = 1
    /\ anchorAttrs.rel = "noopener noreferrer"
    /\ lockedElement = AnchorElem

\* C12: while the mode is active a keydown on an INPUT, TEXTAREA or
\* content-editable target, a mousedown on a SELECT and a change event on any
\* element are cancelled and stopped by listeners registered for the capture
\* phase, and the key's character is not inserted.
C12_InputSuppressed ==
    /\ [](\A i \in 1..Len(attached) :
            attached[i].type \in {"keydown", "mousedown", "change"}
                => attached[i].capture)
    /\ [][(/\ annotationMode
           /\ \E e \in Elems :
                \/ \E editable \in BOOLEAN :
                      /\ TagName(e) \in {"INPUT", "TEXTAREA"} \/ editable
                      /\ lastOp'.op = "keydown" /\ Keydown(e, editable)
                \/ TagName(e) = "SELECT" /\ lastOp'.op = "mousedown" /\ Mousedown(e)
                \/ lastOp'.op = "change" /\ Change(e))
          => /\ lastOp'.defaultPrevented
             /\ lastOp'.propagationStopped
             /\ lastOp'.defaultAction = "none"]_vars

\* A key went down in the text input while the mode was active.
C12_Witness ==
    /\ lastOp.op = "keydown"
    /\ annotationMode
    /\ ~lastOp.targetEditable
    /\ lastOp.defaultPrevented
    /\ lastOp.propagationStopped

\* C13: while the mode is inactive a mouseover, click, keydown, mousedown or
\* change event is not cancelled, not stopped, issues no request and leaves
\* every session field and every class list as it was; a click on the link is
\* followed.
C13_InactiveIsNative ==
    [][\A e \in Elems :
         (/\ ~annotationMode
          /\ \/ Mouseover(e)
             \/ Click(e)
             \/ \E editable \in BOOLEAN : Keydown(e, editable)
             \/ Mousedown(e)
             \/ Change(e))
         => /\ ~lastOp'.defaultPrevented
            /\ ~lastOp'.propagationStopped
            /\ lastOp'.fetched = <<>>
            /\ UNCHANGED <<sessionVars, classList>>
            /\ Click(AnchorElem) => lastOp'.defaultAction = "followLink"]_vars

\* The link was clicked after the mode had been turned off again, with the
\* listeners still attached and a highlight left from before.
C13_Witness ==
    /\ lastOp.op = "click"
    /\ ~annotationMode
    /\ AttachedCount("click") = 1
    /\ lastOp.defaultAction = "followLink"
    /\ currentHighlightedElement # Null

\* The selection a click leaves differs from the one it found.
SelectionChanged ==
    <<lockedElement, selectedElement, secondaryActualElement, secondaryElements>>'
        # <<lockedElement, selectedElement, secondaryActualElement, secondaryElements>>

\* C14: a click that locks an element issues exactly one primary-selected
\* request (element-selected from the single-lock script), a click that
\* appends a secondary issues exactly one secondary-selected request, a click
\* that changes no selection issues none, every click is one of the three, and
\* nothing but a click issues a request.
C14_OneNotificationPerSelection ==
    /\ [](lastOp.op # "click" => lastOp.fetched = <<>>)
    /\ [][\A e \in Elems : (lastOp'.op = "click" /\ Click(e)) =>
            \/ /\ ~elementLocked /\ elementLocked' /\ lockedElement' = e
               /\ secondaryActualElement' = secondaryActualElement
               /\ lastOp'.fetched = IF installed = "dual"
                                    THEN <<"notify-primary-selected">>
                                    ELSE <<"notify-element-selected">>
            \/ /\ installed = "dual"
               /\ secondaryActualElement' = Append(secondaryActualElement, e)
               /\ lockedElement' = lockedElement
               /\ lastOp'.fetched = <<"notify-secondary-selected">>
            \/ /\ ~SelectionChanged
               /\ lastOp'.fetched = <<>>]_vars

\* A second secondary element was appended by a click.
C14_Witness ==
    /\ lastOp.op = "click"
    /\ lastOp.fetched = <<"notify-secondary-selected">>
    /\ Len(secondaryActualElement) = 2

\* C15: when a request settles, resolved or rejected, no session field, class
\* list or listener changes, at whatever point between other operations it
\* settles; a rejection leaves what a success leaves.
C15_FireAndForget ==
    /\ [](OnFetchSettled(Session, "rejected") = OnFetchSettled(Session, "resolved"))
    /\ [][\A outcome \in FetchOutcomes :
            (lastOp'.op = "fetchSettled" /\ FetchSettles(outcome)) =>
            UNCHANGED <<setupVars, sessionVars, classList>>]_vars

\* A request was rejected while an element was locked with two secondaries.
C15_Witness ==
    /\ lastOp.op = "fetchSettled"
    /\ lastOp.returned = "rejected"
    /\ elementLocked
    /\ Len(secondaryActualElement) = 2

\* The role classes an element carries.
RoleClassesOf(e) ==
    {c \in {HighlightClass, PrimaryClass, SecondaryClass, LockedClass} :
        Contains(classList[e], c)}

\* C19: in every reachable state no element carries more than one of the
\* highlight, primary and secondary classes, and none carries the highlight
\* class together with the locked class.
C19_RoleClassesExclusive ==
    \A e \in Elems :
        /\ Cardinality(RoleClassesOf(e) \ {LockedClass}) <= 1
        /\ ~({HighlightClass, LockedClass} \subseteq RoleClassesOf(e))

\* A highlighted, a primary and a secondary element side by side.
C19_Witness ==
    /\ Carrying(classList, HighlightClass) # {}
    /\ Carrying(classList, PrimaryClass) # {}
    /\ Carrying(classList, SecondaryClass) # {}
    /\ lastOp.op = "mouseover"

\* A mouseover on e made e the tracked highlighted element and took the
\* highlight off the element tracked before.
HighlightMovedTo(e) ==
    /\ currentHighlightedElement' = e
    /\ Contains(classList'[e], HighlightClass)
    /\ currentHighlightedElement \notin {Null, e}
         => ~Contains(classList'[currentHighlightedElement], HighlightClass)

\* C20 as stated: with either script, a mouseover in active mode on an element
\* without a locked-role class makes it the tracked highlighted element and
\* takes the highlight off the one tracked before, locked element or not.
C20_PointerEnterAlwaysHighlights ==
    [][\A e \in Elems :
         (annotationMode /\ ~HasRoleClass(e) /\ Mouseover(e))
            => HighlightMovedTo(e)]_vars

\* C20 amended: it does so with the dual-role script always and with the
\* single-lock script while no element is locked; with the single-lock script
\* a mouseover while an element is locked changes no session field and no
\* class list.
C20_PointerEnterHighlightsUnlessSingleLocked ==
    [][\A e \in Elems :
         (annotationMode /\ ~HasRoleClass(e) /\ Mouseover(e))
            => IF installed = "single" /\ elementLocked
               THEN UNCHANGED <<sessionVars, classList>>
               ELSE HighlightMovedTo(e)]_vars

\* With the dual-role script and a locked primary, the highlight moved from one
\* unlocked element to another.
C20_Witness ==
    /\ lastOp.op = "mouseover"
    /\ installed = "dual"
    /\ annotationMode
    /\ elementLocked
    /\ currentHighlightedElement \notin {Null, lockedElement}
    /\ currentHighlightedElement = lastEntered
    /\ Carrying(classList, HighlightClass) = {currentHighlightedElement}

\* The node hangs in the document: its chain of parents reaches the document
\* node.
RECURSIVE Attached(_, _)
Attached(d, n) ==
    IF d[n].tag = "#document" THEN TRUE
    ELSE IF d[n].parent = Null THEN FALSE
    ELSE Attached(d, d[n].parent)

\* The reference has no locator for the node.
NoLocator == "no locator"

\* The reference locator of an element: by its id if it has one, "/html/body"
\* for the body, otherwise the locator of the parent element followed by
\* /tag[k], k being one more than the number of earlier element siblings of
\* the same tag.
RECURSIVE RefLocator(_, _)
RefLocator(d, n) ==
    IF ~IsElement(d, n) THEN NoLocator
    ELSE IF d[n].id # "" THEN "//*[@id=\"" \o d[n].id \o "\"]"
    ELSE IF n = DocBody THEN "/html/body"
    ELSE IF d[n].parent = Null THEN NoLocator
    ELSE LET up == RefLocator(d, d[n].parent)
             earlier == {m \in ElementsOf(d) :
                           /\ d[m].parent = d[n].parent
                           /\ m < n
                           /\ d[m].tag = d[n].tag}
         IN IF up = NoLocator THEN NoLocator
            ELSE up \o "/" \o ToLowerCase(d[n].tag) \o "["
                 \o ToString(Cardinality(earlier) + 1) \o "]"

\* The reference has a locator for the element: it has an id, or is the
\* body, or lies below such an element.
RefDefined(d, n) == RefLocator(d, n) # NoLocator

\* C16: for every element of the document, getXPath returns the reference
\* locator.
C16_EqualsReference ==
    (xpNode # Null /\ Attached(xpDoc, xpNode))
        => xpResult = RefLocator(xpDoc, xpNode)

\* C17: getXPath never throws; it returns null only for an element with no
\* parent and no id; and for an element attached to the document it returns a
\* string whose recursion ended at an element with a non-empty id or at body.
C17_EndsAtIdOrBody ==
    xpNode # Null =>
        /\ xpResult # Throws
        /\ xpResult = "null" =>
              (xpDoc[xpNode].parent = Null /\ xpDoc[xpNode].id = "")
        /\ Attached(xpDoc, xpNode) =>
              /\ xpResult # "null"
              /\ LET b == XPathEndsAt(xpDoc, xpNode)
                 IN \/ IsElement(xpDoc, b) /\ xpDoc[b].id # ""
                    \/ b = DocBody

\* The steps of the expression getXPath(n) returns: the first one selects by
\* id or is the path /html/body, the others are child steps tag[index].
RECURSIVE XPathSteps(_, _)
XPathSteps(d, n) ==
    IF d[n].tag = "#document" THEN <<[axis |-> "id", name |-> "undefined", index |-> 0]>>
    ELSE IF d[n].id # "" THEN <<[axis |-> "id", name |-> d[n].id, index |-> 0]>>
    ELSE IF n = DocBody THEN <<[axis |-> "root", name |-> "html/body", index |-> 0]>>
    ELSE IF d[n].parent = Null THEN <<>>
    ELSE LET sibs == ChildNodesIn(d, d[n].parent)
             up == XPathSteps(d, d[n].parent)
         IN IF up = <<>> THEN <<>>
            ELSE Append(up, [axis |-> "child", name |-> ToLowerCase(d[n].tag),
                             index |-> SameTagBeforeIn(d, sibs, IndexOf(sibs, n),
                                                       d[n].tag) + 1])

\* The expression the steps spell.
RECURSIVE Render(_)
Render(steps) ==
    IF steps = <<>> THEN ""
    ELSE LET st == steps[Len(steps)]
             up == Render(SubSeq(steps, 1, Len(steps) - 1))
         IN CASE st.axis = "id" -> "//*[@id=\"" \o st.name \o "\"]"
              [] st.axis = "root" -> "/" \o st.name
              [] st.axis = "child" ->
                    up \o "/" \o st.name \o "[" \o ToString(st.index) \o "]"

\* The elements of the document one step selects from the context nodes cur,
\* as XPath evaluates it: //*[@id="X"] selects every element with that id,
\* /html/body the body children of the root html element, tag[k] the k-th
\* child element of that name of each context node.
ResolveStep(d, cur, st) ==
    CASE st.axis = "id" ->
            {m \in ElementsOf(d) : Attached(d, m) /\ d[m].id = st.name}
      [] st.axis = "root" ->
            {m \in ElementsOf(d) :
                /\ d[m].tag = "BODY"
                /\ d[m].parent # Null
                /\ d[d[m].parent].tag = "HTML"
                /\ d[d[m].parent].parent # Null
                /\ d[d[d[m].parent].parent].tag = "#document"}
      [] st.axis = "child" ->
            {m \in ElementsOf(d) :
                /\ d[m].parent \in cur
                /\ ToLowerCase(d[m].tag) = st.name
                /\ Cardinality({c \in ElementsOf(d) :
                                   /\ d[c].parent = d[m].parent
                                   /\ c < m
                                   /\ d[c].tag = d[m].tag}) + 1 = st.index}

\* The elements the whole expression selects in the document.
RECURSIVE Resolve(_, _)
Resolve(d, steps) ==
    IF steps = <<>> THEN {}
    ELSE ResolveStep(d, Resolve(d, SubSeq(steps, 1, Len(steps) - 1)),
                     steps[Len(steps)])

\* C18: the string getXPath returns for an element of the document, resolved
\* against that document, selects that element and no other.
C18_RoundTrip ==
    (xpNode # Null /\ Attached(xpDoc, xpNode)) =>
        /\ Render(XPathSteps(xpDoc, xpNode)) = xpResult
        /\ Resolve(xpDoc, XPathSteps(xpDoc, xpNode)) = {xpNode}

\* Where the reference has a locator, getXPath returns it: for the body, for
\* elements with an id and for everything below them.
XPathEqualsReferenceWhereDefined ==
    (xpNode # Null /\ Attached(xpDoc, xpNode) /\ RefDefined(xpDoc, xpNode))
        => xpResult = RefLocator(xpDoc, xpNode)

\* Resolving finds the element again, and only it, when the expression starts
\* at body or at an id that one element of the document has.
XPathRoundTripWhereAnchored ==
    (/\ xpNode # Null
     /\ Attached(xpDoc, xpNode)
     /\ LET b == XPathEndsAt(xpDoc, xpNode)
        IN \/ b = DocBody
           \/ /\ IsElement(xpDoc, b)
              /\ Cardinality({m \in ElementsOf(xpDoc) :
                                 Attached(xpDoc, m) /\ xpDoc[m].id = xpDoc[b].id}) = 1)
        => /\ Render(XPathSteps(xpDoc, xpNode)) = xpResult
           /\ Resolve(xpDoc, XPathSteps(xpDoc, xpNode)) = {xpNode}

\* A mouseout of e took the highlight off e and cleared the tracked reference,
\* and changed nothing else.
HighlightCleared(e) ==
    /\ currentHighlightedElement' = Null
    /\ classList' = [classList EXCEPT ![e] = ClassRemove(@, HighlightClass)]
    /\ ~Contains(classList'[e], HighlightClass)
    /\ UNCHANGED <<annotationMode, selectedElement, elementLocked, lockedElement,
                   secondaryActualElement, secondaryElements>>

\* C21 as stated: with either script and in every session state, a mouseout of
\* the tracked highlighted element takes the highlight class off it and clears
\* the tracked reference, and a mouseout of any other element changes nothing.
C21_PointerLeaveAlwaysClears ==
    [][\A e \in Elems :
         (lastOp'.op = "mouseout" /\ Mouseout(e))
            => IF e = currentHighlightedElement
               THEN HighlightCleared(e)
               ELSE UNCHANGED <<sessionVars, classList>>]_vars

\* C21 amended: it does so with the dual-role script in every session state,
\* and with the single-lock script while the mode is active and no element is
\* locked; with the single-lock script a mouseout while the mode is inactive
\* or an element is locked changes nothing.
C21_PointerLeaveClearsUnlessSingleIdle ==
    [][\A e \in Elems :
         (lastOp'.op = "mouseout" /\ Mouseout(e))
            => IF /\ e = currentHighlightedElement
                  /\ (installed = "dual" \/ (annotationMode /\ ~elementLocked))
               THEN HighlightCleared(e)
               ELSE UNCHANGED <<sessionVars, classList>>]_vars

\* With the dual-role script and a locked primary, the pointer left the element
\* it had entered and no highlight is left.
C21_Witness ==
    /\ lastOp.op = "mouseout"
    /\ installed = "dual"
    /\ annotationMode
    /\ lastOp.lockedBefore
    /\ currentHighlightedElement = Null
    /\ lastEntered \notin {Null, lockedElement}
    /\ ~HasRoleClass(lastEntered)
    /\ Carrying(classList, HighlightClass) = {}

\* C22: in every reachable state the locked flag is true exactly when a locked
\* element and a capture are both stored; the elements carrying the primary or
\* the locked class are the locked element alone, or none when nothing is
\* locked; the elements carrying the secondary class are the members of
\* secondaryActualElement, and there are some only while an element is locked.
C22_StateMatchesClasses ==
    /\ elementLocked <=> (lockedElement # Null /\ selectedElement # NoData)
    /\ PrimaryOrLocked(classList)
         = IF elementLocked THEN {lockedElement} ELSE {}
    /\ Carrying(classList, SecondaryClass) = Range(secondaryActualElement)
    /\ secondaryActualElement # <<>> => elementLocked

\* A primary and two secondaries are selected and carry their classes.
C22_Witness ==
    /\ installed = "dual"
    /\ elementLocked
    /\ selectedElement # NoData
    /\ Carrying(classList, PrimaryClass) = {lockedElement}
    /\ Len(secondaryActualElement) = 2
    /\ Cardinality(Carrying(classList, SecondaryClass)) = 2

\* The globals and class lists at the moment a request for `endpoint` was
\* issued by a click on e hold the selection the request announces.
RecordedAt(t, endpoint, e) ==
    IF endpoint = "notify-secondary-selected"
    THEN /\ Len(t.secondaryActualElement) >= 1
         /\ Len(t.secondaryElements) = Len(t.secondaryActualElement)
         /\ t.secondaryActualElement[Len(t.secondaryActualElement)] = e
         /\ t.secondaryElements[Len(t.secondaryElements)]
               = CapturedData(t.classList, e)
         /\ Contains(t.classList[e], SecondaryClass)
    ELSE /\ t.elementLocked
         /\ t.lockedElement = e
         /\ t.selectedElement = CapturedData(t.classList, e)
         /\ Contains(t.classList[e],
                     IF endpoint = "notify-primary-selected"
                     THEN PrimaryClass ELSE LockedClass)

\* C23: when a click issues a notification, the selection it announces is
\* already recorded at that moment: for a primary or single-lock notification
\* the locked flag is true, the capture and the locked element are stored and
\* the element carries its role class; for a secondary notification the
\* element and its capture are the last entries of the two secondary
\* collections.
C23_NotifiedAfterRecorded ==
    [][\A e \in Elems :
         (lastOp'.op = "click" /\ Click(e)) =>
            LET s == DispatchedPath("click", e, FALSE)
            IN /\ Len(s.atFetch) = Len(s.fetched)
               /\ s.fetched = lastOp'.fetched
               /\ \A i \in 1..Len(s.fetched) :
                     RecordedAt(s.atFetch[i], s.fetched[i], e)]_vars

\* The single-lock script announced the element a click had just locked.
C23_Witness ==
    /\ installed = "single"
    /\ lastOp.op = "click"
    /\ ~lastOp.lockedBefore
    /\ lastOp.fetched = <<"notify-element-selected">>
    /\ elementLocked
    /\ selectedElement # NoData
    /\ Carrying(classList, LockedClass) = {lockedElement}

====
